---- MODULE Spec2Model ----
(***************************************************************************)
(* A model of telnet_server.py: the animated telnet splash screen.        *)
(*                                                                         *)
(* Text is modelled character by character: a Python str is a sequence of  *)
(* one-character strings.  The escape character \x1b is the element "ESC", *)
(* carriage return is "\r" and line feed is "\n".                          *)
(***************************************************************************)
EXTENDS Integers, Sequences, FiniteSets, TLC

(***************************************************************************)
(* Bounds of the model.                                                    *)
(***************************************************************************)
\* Bytes a client sends on one connection.
MaxInput == 2
\* Window-size (NAWS) reports a client sends on one connection.
MaxReports == 1
\* Largest row count of the geometries enumerated for render_screen.
MaxRows == 7
\* Largest column count of the dense range enumerated for render_screen.
MaxCols == 30

(***************************************************************************)
(* Python helpers.                                                         *)
(***************************************************************************)
\* A slice bound as Python normalises it for a sequence of length n.
PyBound(i, n) ==
    LET j == IF i < 0 THEN i + n ELSE i
    IN  IF j < 0 THEN 0 ELSE IF j > n THEN n ELSE j

\* s[lo:hi]
PySlice(s, lo, hi) ==
    LET a == PyBound(lo, Len(s))
        b == PyBound(hi, Len(s))
    IN  IF a >= b THEN <<>> ELSE SubSeq(s, a + 1, b)

\* s[lo:]
PyFrom(s, lo) == PySlice(s, lo, Len(s))

\* s * n
Rep(s, n) == [k \in 1..(Len(s) * n) |-> s[((k - 1) % Len(s)) + 1]] \o <<>>

\* The element of a one-element set.  {F(x) : x \in {v}} evaluates v once
\* before F is applied to it.
TheOne(S) == CHOOSE y \in S : TRUE

\* sep.join(lines)
RECURSIVE JoinFrom(_, _, _)
JoinFrom(lines, sep, k) ==
    IF k > Len(lines) THEN <<>>
    ELSE IF k = Len(lines) THEN lines[k]
    ELSE lines[k] \o sep \o JoinFrom(lines, sep, k + 1)

Join(lines, sep) == JoinFrom(lines, sep, 1)

\* The 0-based index of the first occurrence of old in s, or -1: s.find(old)
Find(s, old) ==
    LET hits == {i \in 0..(Len(s) - Len(old)) :
                    SubSeq(s, i + 1, i + Len(old)) = old}
    IN  IF hits = {} THEN -1
        ELSE CHOOSE i \in hits : \A j \in hits : i <= j

\* s.replace(old, new, 1)
ReplaceFirst(s, old, new) ==
    LET i == Find(s, old)
    IN  IF i = -1 THEN s
        ELSE SubSeq(s, 1, i) \o new \o SubSeq(s, i + Len(old) + 1, Len(s))

(***************************************************************************)
(* VT-100 terminal commands and the artwork.                               *)
(***************************************************************************)
END == <<"ESC", "[", "0", "m">>
BOLD == <<"ESC", "[", "1", "m">>
RED == <<"ESC", "[", "1", ";", "3", "1", "m">>
GREEN == <<"ESC", "[", "2", "2", ";", "3", "2", "m">>
YELLOW == <<"ESC", "[", "1", ";", "3", "3", "m">>
MAGENTA == <<"ESC", "[", "1", ";", "3", "5", "m">>
WATER == <<"ESC", "[", "4", "6", "m", "ESC", "[", "1", ";", "3", "7", "m">>
RESET == <<"ESC", "[", "0", ";", "0", "H">>

WAVE == <<
    Rep(<<"'", "^", "^", "'", "-", ".", "_", "_", ".", "-">>, 20),
    Rep(<<"^", "^", "'", "-", ".", "_", "_", ".", "-", "'">>, 20),
    Rep(<<"^", "'", "-", ".", "_", "_", ".", "-", "'", "^">>, 20),
    Rep(<<"'", "-", ".", "_", "_", ".", "-", "'", "^", "^">>, 20),
    Rep(<<"-", ".", "_", "_", ".", "-", "'", "^", "^", "'">>, 20),
    Rep(<<".", "_", "_", ".", "-", "'", "^", "^", "'", "-">>, 20),
    Rep(<<"_", "_", ".", "-", "'", "^", "^", "'", "-", ".">>, 20),
    Rep(<<"_", ".", "-", "'", "^", "^", "'", "-", ".", "_">>, 20),
    Rep(<<".", "-", "'", "^", "^", "'", "-", ".", "_", "_">>, 20),
    Rep(<<"-", "'", "^", "^", "'", "-", ".", "_", "_", ".">>, 20) >>

COLOR_TOKEN == <<"^", "c", "o", "l", "o", "r">>

BANNER == <<
    <<" ", " ", " ", " ", " ", " ", " ", " ", " ", " ", " ", " ", " ", " ", " ", " ", " ">>,
    BOLD \o <<" ", " ", "M", " ", "O", " ", "Z", " ", "Z", " ", ".", " ", "U", " ", "S", " ", " ">> \o END,
    <<" ", " ", "-", "-", "-", "-", "-", "-", "-", "-", "-", "-", "-", "-", "-", " ", " ">>,
    COLOR_TOKEN \o <<" ", " ", "R", "i", "d", "e", " ", "t", "h", "e", " ", "W", "a", "v", "e", " ", " ">> \o END,
    <<" ", " ", " ", " ", " ", " ", " ", " ", " ", " ", " ", " ", " ", " ", " ", " ", " ">> >>
BANNER_ROWS == Len(BANNER)
BANNER_COLS == Len(BANNER[1])

FOOTER_SIG == <<"j", "g", "s">>
FOOTER_QUIT == <<"[", "q", "]", "u", "i", "t">>
CRLF == <<"\r", "\n">>

(***************************************************************************)
(* The frame renderer.                                                     *)
(***************************************************************************)
\* The guard of overlay_banner: TRUE when the banner is left out.
BannerOmittedRowsOnly(rows, cols) == rows < BANNER_ROWS
BannerOmittedWithMargin(rows, cols) ==
    rows < BANNER_ROWS + 2 \/ cols < BANNER_COLS + 2
BannerOmitted(rows, cols) == rows < BANNER_ROWS \/ cols < BANNER_COLS

\* overlay_banner: the list `lines` after the call (the code edits it in place).
overlay_banner(rows, cols, lines) ==
    IF BannerOmitted(rows, cols) THEN lines
    ELSE
        LET start_row == (rows - BANNER_ROWS) \div 2
            start == (cols - BANNER_COLS) \div 2
            end == start + BANNER_COLS
        IN  [r \in 1..Len(lines) |->
                LET i == (r - 1) - start_row
                IN  IF i >= 0 /\ i < BANNER_ROWS
                    THEN PySlice(lines[r], 0, start) \o END \o BANNER[i + 1]
                             \o WATER \o PyFrom(lines[r], end)
                    ELSE lines[r]]

\* The background: rows lines of the wave pattern, cut to cols characters.
Background(rows, cols, offset) ==
    [r \in 1..rows |-> PySlice(WAVE[(((r - 1) + offset) % Len(WAVE)) + 1], 0, cols)]

\* The footer test and the footer itself, on the last line.
FooterApplies(last) == Len(last) > 9
Footer(last) == FOOTER_SIG \o PySlice(last, 3, -6) \o FOOTER_QUIT

\* The list `lines` once the footer is added (lines is not empty).
AddFooter(lines) ==
    [r \in 1..Len(lines) |->
        IF r = Len(lines) /\ FooterApplies(lines[r])
        THEN Footer(lines[r])
        ELSE lines[r]]

\* The list `lines` of render_screen before the footer is added.
Overlaid(rows, cols, offset) ==
    TheOne({overlay_banner(rows, cols, bg) \o <<>> :
               bg \in {Background(rows, cols, offset) \o <<>>}})

\* The list `lines` of render_screen when it returns (rows >= 1).
FrameLines(rows, cols, offset) ==
    TheOne({AddFooter(lines) \o <<>> : lines \in {Overlaid(rows, cols, offset)}})

\* The body of render_screen: exc is "" when the call returns `value`, and
\* the name of the exception when it raises: lines[-1] of an empty list is
\* an IndexError.
render_body(rows, cols, offset) ==
    IF Len(Background(rows, cols, offset)) = 0
    THEN [exc |-> "IndexError", value |-> <<>>]
    ELSE [exc |-> "",
          value |-> TheOne({RESET \o WATER \o Join(lines, CRLF) \o END :
                               lines \in {FrameLines(rows, cols, offset)}})]

(***************************************************************************)
(* The frame cache: functools.lru_cache(maxsize=200) around render_screen. *)
(* A cache is a sequence of entries, the least recently used first.        *)
(***************************************************************************)
CACHE_MAXSIZE == 200

CacheIndexNotFound(c, key) == 0
CacheIndexByOffset(c, key) ==
    LET hits == {i \in 1..Len(c) : c[i].key[3] = key[3]}
    IN  IF hits = {} THEN 0 ELSE CHOOSE i \in hits : TRUE
CacheIndex(c, key) ==
    LET hits == {i \in 1..Len(c) : c[i].key = key}
    IN  IF hits = {} THEN 0 ELSE CHOOSE i \in hits : TRUE

CacheWithout(c, i) == SubSeq(c, 1, i - 1) \o SubSeq(c, i + 1, Len(c))

\* Room for one more entry: the least recently used entry is dropped when
\* the cache is full.
CacheEvict(c) == IF Len(c) >= CACHE_MAXSIZE THEN Tail(c) ELSE c

\* render_screen(rows, cols, offset) called with the cache c: the result
\* (exc, value), whether it was a hit, and the cache after the call.  A call
\* that raises stores nothing.
render_screen(c, rows, cols, offset) ==
    LET key == <<rows, cols, offset>>
        i == CacheIndex(c, key)
    IN  IF i # 0
        THEN [exc |-> "", value |-> c[i].value, hit |-> TRUE,
              cache |-> Append(CacheWithout(c, i), c[i])]
        ELSE TheOne(
                 {IF r.exc # ""
                  THEN [exc |-> r.exc, value |-> <<>>, hit |-> FALSE, cache |-> c]
                  ELSE [exc |-> "", value |-> r.value, hit |-> FALSE,
                        cache |-> Append(CacheEvict(c),
                                         [key |-> key, value |-> r.value])]
                  : r \in {render_body(rows, cols, offset)}})

(***************************************************************************)
(* The program state.                                                      *)
(*                                                                         *)
(*   FPS, DURATION   the two module globals, in tenths (main() sets them   *)
(*                   from --fps and --duration before the server starts)   *)
(*   cache           the lru_cache of render_screen, shared by all shells  *)
(*   active          the connections the acceptor has handed to shell()    *)
(*   sess            per connection: the shell coroutine (pc and locals),  *)
(*                   the connection (extra, inbuf, conn), what the shell   *)
(*                   did on it (iac, written, closes) and history fields:  *)
(*                   lookups is the list of the render_screen calls that   *)
(*                   returned, each with its arguments and whether the     *)
(*                   body ran (a miss) or not (a hit); colors is the list  *)
(*                   of the values of subtitle_color, one per frame;       *)
(*                   ndrains and npolls count the awaits of writer.drain() *)
(*                   and of the timed reader.read(1) that have completed;  *)
(*                   graceSize and graceReports are the size and the       *)
(*                   number of reports when the grace wait ends, and       *)
(*                   graceQuit the number of unread bytes before the first *)
(*                   unread 'q' then (-1: no 'q' unread); quitAt is the    *)
(*                   frame after which 'q' was read and eofAt the number   *)
(*                   of frames written when a read first returned          *)
(*                   end-of-stream; nframes is the length of the range the *)
(*                   for statement loops over (-1 before the loop starts); *)
(*                   waiting tells that the read of the current poll found *)
(*                   nothing to return when it started and waits, or was   *)
(*                   not started                                           *)
(***************************************************************************)
VARIABLES FPS, DURATION, cache, active, sess

vars == <<FPS, DURATION, cache, active, sess>>

Sessions == {"c1", "c2"}

\* The (DURATION, FPS) pairs enumerated, in tenths: 1 s at 10 fps (10
\* frames) and 0.5 s at 5 fps (2.5, so 2 frames).
Configs == {<<10, 100>>, <<5, 50>>}

\* The input bytes a client sends.
Bytes == {"q", "x"}

\* The window sizes a client reports (rows, cols): in the long session,
\* where the geometries fill the cache, and in the sessions with keys and
\* disconnections, where one size fails the renderer and one does not.
ReportSizes == {<<0, 0>>, <<5, 5>>, <<7, 30>>}
LoopSizes == {<<0, 0>>, <<7, 30>>}

(***************************************************************************)
(* Python floats.  --duration and --fps are parsed by float(): the double  *)
(* nearest to the decimal text.  DURATION * FPS is the double nearest to   *)
(* the product of the two doubles, and int() cuts its fraction off.  The   *)
(* 53 bits of a double do not fit an integer of the model: a natural       *)
(* number is held as its digits in base 2^13, lowest first, and a double   *)
(* is m * 2^e with m such a number.                                        *)
(***************************************************************************)
DIGIT_BITS == 13
BASE == 8192

RECURSIVE Pow2(_)
Pow2(k) == IF k = 0 THEN 1 ELSE 2 * Pow2(k - 1)

RECURSIVE Digits(_)
Digits(n) == IF n = 0 THEN <<>> ELSE <<n % BASE>> \o Digits(n \div BASE)

DigitAt(a, i) == IF i >= 1 /\ i <= Len(a) THEN a[i] ELSE 0

\* Bit i of a, the lowest being bit 1.
BitAt(a, i) ==
    (DigitAt(a, ((i - 1) \div DIGIT_BITS) + 1) \div Pow2((i - 1) % DIGIT_BITS)) % 2

\* The number of bits of a up to its highest 1.
BitLen(a) ==
    TheOne({IF ones = {} THEN 0 ELSE CHOOSE i \in ones : \A j \in ones : j <= i :
            ones \in {{i \in 1..(DIGIT_BITS * Len(a)) : BitAt(a, i) = 1}}})

\* The value of a from digit i on, for a number that fits an integer.
RECURSIVE DigitsValue(_, _)
DigitsValue(a, i) ==
    IF i > Len(a) THEN 0 ELSE a[i] + BASE * DigitsValue(a, i + 1)

\* The digits of the number whose digit i is cols[i] + carry, cols[i] not
\* being below BASE necessarily.
RECURSIVE Carried(_, _, _)
Carried(cols, i, carry) ==
    IF i > Len(cols)
    THEN IF carry = 0 THEN <<>> ELSE <<carry>>
    ELSE TheOne({<<t % BASE>> \o Carried(cols, i + 1, t \div BASE) :
                 t \in {cols[i] + carry}})

\* a + 1
Incremented(a) ==
    TheOne({Carried(cols, 1, 0) :
            cols \in {[i \in 1..Len(a) |-> IF i = 1 THEN a[i] + 1 ELSE a[i]]
                          \o <<>>}})

\* The sum of a[i] * b[k + 1 - i] over i from lo on: column k of a * b.
RECURSIVE Column(_, _, _, _)
Column(a, b, k, i) ==
    IF i > Len(a) THEN 0
    ELSE a[i] * DigitAt(b, k + 1 - i) + Column(a, b, k, i + 1)

\* a * b
Product(a, b) ==
    TheOne({Carried(cols, 1, 0) :
            cols \in {[k \in 1..(Len(a) + Len(b)) |-> Column(a, b, k, 1)]
                          \o <<>>}})

\* a * 2^(13 k)
ShiftedUp(a, k) == [i \in 1..k |-> 0] \o a

\* a // 2^t
ShiftedDown(a, t) ==
    TheOne({[i \in 1..Len(a) |->
                (DigitAt(a, i + q) \div Pow2(r))
                    + (DigitAt(a, i + q + 1) % Pow2(r)) * Pow2(DIGIT_BITS - r)]
                \o <<>> :
            q \in {t \div DIGIT_BITS}, r \in {t % DIGIT_BITS}})

\* Long division of a by 10, from the highest digit i down, r being the
\* remainder so far: the quotient's digits up to i and the remainder.
RECURSIVE DivTen(_, _, _)
DivTen(a, i, r) ==
    IF i = 0 THEN [q |-> <<>>, r |-> r]
    ELSE TheOne({TheOne({[q |-> rest.q \o <<t \div 10>>, r |-> rest.r] :
                         rest \in {DivTen(a, i - 1, t % 10)}}) :
                 t \in {r * BASE + a[i]}})

\* The number a, of which something below its lowest bit is left out when
\* sticky, rounded to 53 bits, to nearest and to even on a tie: m * 2^t.
Rounded(a, t, m, sticky) ==
    LET half == BitAt(a, t) = 1
        more == sticky \/ \E i \in 1..(t - 1) : BitAt(a, i) = 1
        up == half /\ (more \/ BitAt(m, 1) = 1)
    IN  [m |-> IF up THEN Incremented(m) ELSE m, t |-> t]

RoundTo53(a, sticky) ==
    TheOne({IF t <= 0 THEN [m |-> a, t |-> 0]
            ELSE TheOne({Rounded(a, t, m, sticky) : m \in {ShiftedDown(a, t)}}) :
            t \in {BitLen(a) - 53}})

\* float(text), the text being the decimal of n tenths, n > 0: n * 2^65 is
\* divided by 10 and the quotient, of 61 bits at least, rounded.
FloatOfTenths(n) ==
    TheOne({TheOne({TheOne({[m |-> r.m, e |-> r.t - 5 * DIGIT_BITS] :
                            r \in {RoundTo53(d.q, d.r # 0)}}) :
                    d \in {DivTen(num, Len(num), 0)}}) :
            num \in {ShiftedUp(Digits(n), 5)}})

\* x * y
FloatMul(x, y) ==
    TheOne({TheOne({[m |-> r.m, e |-> x.e + y.e + r.t] :
                    r \in {RoundTo53(p, FALSE)}}) :
            p \in {Product(x.m, y.m)}})

\* int(x), x > 0 and below 2^31
FloatToInt(x) == DigitsValue(ShiftedDown(x.m, 0 - x.e), 1)

Abs(n) == IF n < 0 THEN 0 - n ELSE n

\* int(DURATION * FPS), the globals being held in tenths.
FrameCount(duration, fps) ==
    IF duration = 0 \/ fps = 0 THEN 0
    ELSE TheOne({TheOne({TheOne({IF (duration < 0) = (fps < 0) THEN n ELSE 0 - n :
                                 n \in {FloatToInt(p)}}) :
                         p \in {FloatMul(x, y)}}) :
                 x \in {FloatOfTenths(Abs(duration))},
                 y \in {FloatOfTenths(Abs(fps))}})

\* get_terminal_size: extra is <<>> until the client reports a window size.
DEFAULT_ROWS == 24
DEFAULT_COLS == 80
get_terminal_size(extra) ==
    IF extra = <<>> THEN <<DEFAULT_ROWS, DEFAULT_COLS>> ELSE extra

\* One more await completed, for the history counters ndrains and npolls.
\* A session completes at most one drain and one poll per frame, so the
\* counters stop one above the frame count, which no session reaches.
Counted(s, n) == IF n <= sess[s].nframes THEN n + 1 ELSE n

\* The subtitle color of a frame.
PALETTE == <<MAGENTA, GREEN, RED, YELLOW>>
COLOR_PERIOD == 7
SubtitleColorPerFrame(frame) == PALETTE[(frame % Len(PALETTE)) + 1]
SubtitleColor(frame) == PALETTE[((frame \div COLOR_PERIOD) % Len(PALETTE)) + 1]

\* The offset of a frame in the wave pattern.
WaveOffsetUnwrapped(frame) == frame
WaveOffset(frame) == frame % Len(WAVE)

\* The test of the byte read.
IsQuit(char) == char = "q"

\* i in range(n)
InRange(i, n) == i < n

\* The option commands negotiate_telnet_options sends, in order.
NEGOTIATION == << <<"DO", "NAWS">>, <<"DO", "SGA">>, <<"WILL", "SGA">>,
                  <<"WILL", "ECHO">>, <<"WONT", "LINEMODE">> >>

NewSession ==
    [pc |-> "connected",
     frame |-> -1, rows |-> 0, cols |-> 0, offset |-> 0, text |-> <<>>,
     char |-> "",
     extra |-> <<>>, inbuf |-> <<>>, conn |-> "open",
     iac |-> <<>>, written |-> <<>>, closes |-> 0, exc |-> "",
     lookups |-> <<>>, colors |-> <<>>, ndrains |-> 0, npolls |-> 0,
     nsent |-> 0, nreports |-> 0,
     graceSize |-> <<>>, graceReports |-> -1, graceQuit |-> -1,
     quitAt |-> -1, eofAt |-> -1,
     nframes |-> -1, waiting |-> FALSE]

InitWith(conns, configs) ==
    /\ \E cfg \in configs : DURATION = cfg[1] /\ FPS = cfg[2]
    /\ cache = <<>>
    /\ active = conns
    /\ sess = [s \in Sessions |-> NewSession]

Init == InitWith({"c1"}, Configs)

(***************************************************************************)
(* shell(reader, writer), one action per stretch between two awaits.       *)
(***************************************************************************)
\* negotiate_telnet_options up to its sleep.
Negotiate(s) ==
    /\ sess[s].pc = "connected"
    /\ sess' = [sess EXCEPT ![s].pc = "sleep", ![s].iac = @ \o NEGOTIATION]
    /\ UNCHANGED <<FPS, DURATION, cache, active>>

\* What follows the sleep: negotiate_telnet_options returns and the loop
\* starts.
AfterGraceRenegotiates == "connected"
AfterGrace == "loop"

\* asyncio.sleep(0.5) returns, and the for statement evaluates its range,
\* once.
GraceElapsed(s) ==
    /\ sess[s].pc = "sleep"
    /\ sess' = [sess EXCEPT ![s].pc = AfterGrace,
                            ![s].nframes = FrameCount(DURATION, FPS),
                            ![s].graceSize = get_terminal_size(sess[s].extra),
                            ![s].graceReports = sess[s].nreports,
                            ![s].graceQuit = Find(sess[s].inbuf, <<"q">>)]
    /\ UNCHANGED <<FPS, DURATION, cache, active>>

\* One pass of the loop body up to writer.drain(): the size is read, the
\* frame rendered through the cache, colored and written.  render_screen
\* raising ends the shell with that exception.
Frame(s) ==
    /\ sess[s].pc = "loop"
    /\ InRange(sess[s].frame + 1, sess[s].nframes)
    /\ LET frame == sess[s].frame + 1
           size == get_terminal_size(sess[s].extra)
           offset == WaveOffset(frame)
       IN  \E r \in {render_screen(cache, size[1], size[2], offset)} :
           \E text \in {IF r.exc = ""
                        THEN ReplaceFirst(r.value, COLOR_TOKEN, SubtitleColor(frame))
                        ELSE sess[s].text} :
               /\ cache' = r.cache
               /\ sess' = [sess EXCEPT
                      ![s].frame = frame,
                      ![s].rows = size[1],
                      ![s].cols = size[2],
                      ![s].offset = offset,
                      ![s].text = text,
                      ![s].written = IF r.exc = "" THEN Append(@, frame) ELSE @,
                      ![s].lookups =
                          IF r.exc = ""
                          THEN Append(@, [key |-> <<size[1], size[2], offset>>,
                                          hit |-> r.hit])
                          ELSE @,
                      ![s].colors =
                          IF r.exc = "" THEN Append(@, SubtitleColor(frame)) ELSE @,
                      ![s].exc = r.exc,
                      ![s].pc = IF r.exc = "" THEN "drain" ELSE "done"]
    /\ UNCHANGED <<FPS, DURATION, active>>

\* range(int(DURATION * FPS)) is exhausted.
Exhausted(s) ==
    /\ sess[s].pc = "loop"
    /\ ~InRange(sess[s].frame + 1, sess[s].nframes)
    /\ sess' = [sess EXCEPT ![s].pc = "closing"]
    /\ UNCHANGED <<FPS, DURATION, cache, active>>

\* What follows writer.drain(): the timed read.
AfterDrainSkipsRead == "loop"
AfterDrain == "read"

\* wait_for(reader.read(1), timeout=1/FPS): with a positive timeout the read
\* runs; with a timeout of 0 or less (a negative FPS) wait_for cancels the
\* read before it has started.
ReadStarts(fps) == fps > 0

\* writer.drain() returns and wait_for is called: the read, when it runs,
\* waits when nothing is buffered and the peer has not closed.
Drain(s) ==
    /\ sess[s].pc = "drain"
    /\ sess' = [sess EXCEPT
           ![s].pc = AfterDrain,
           ![s].ndrains = Counted(s, @),
           ![s].waiting = \/ ~ReadStarts(FPS)
                          \/ sess[s].inbuf = <<>> /\ sess[s].conn = "open"]
    /\ UNCHANGED <<FPS, DURATION, cache, active>>

\* The errors a lost connection is reported with: a reset, or a connection
\* that timed out (ETIMEDOUT, the builtin TimeoutError).
ConnErrors == {"ConnectionResetError", "TimeoutError"}

\* writer.drain() raises: the connection is lost.  The call is outside the
\* try statement, so whatever it raises ends the shell.
DrainFails(s) ==
    /\ sess[s].pc = "drain"
    /\ sess[s].conn = "lost"
    /\ \E e \in ConnErrors :
           sess' = [sess EXCEPT ![s].pc = "done", ![s].exc = e]
    /\ UNCHANGED <<FPS, DURATION, cache, active>>

\* What follows the byte read: the break, or the next pass of the loop.
AfterReadNoBreak(char) == "loop"
AfterRead(char) == IF IsQuit(char) THEN "closing" ELSE "loop"

\* reader.read(1) returns a received byte before the timeout.
ReadByte(s) ==
    /\ sess[s].pc = "read"
    /\ ReadStarts(FPS)
    /\ sess[s].inbuf # <<>>
    /\ LET char == Head(sess[s].inbuf)
       IN  sess' = [sess EXCEPT
               ![s].char = char,
               ![s].inbuf = Tail(@),
               ![s].pc = AfterRead(char),
               ![s].npolls = Counted(s, @),
               ![s].waiting = FALSE,
               ![s].quitAt = IF IsQuit(char) THEN sess[s].frame ELSE @]
    /\ UNCHANGED <<FPS, DURATION, cache, active>>

\* What follows the timeout: the except clause passes, the loop goes on.
AfterTimeout == "loop"

\* The read has waited for 1/FPS seconds, or was not started: wait_for
\* cancels it and raises asyncio.TimeoutError, which is caught and passed.  A byte or the peer's
\* close that the event loop handles after the timer has fired and before
\* the read is cancelled is not seen by this poll: the byte stays buffered.
\* A read that found a byte or the end of the stream when it started has
\* returned it and does not time out.
ReadTimeout(s) ==
    /\ sess[s].pc = "read"
    /\ sess[s].waiting
    /\ sess' = [sess EXCEPT
           ![s].pc = AfterTimeout,
           ![s].npolls = Counted(s, @),
           ![s].waiting = FALSE]
    /\ UNCHANGED <<FPS, DURATION, cache, active>>

\* The peer has closed and nothing is buffered: reader.read(1) returns the
\* empty string at once.
ReadEof(s) ==
    /\ sess[s].pc = "read"
    /\ ReadStarts(FPS)
    /\ sess[s].inbuf = <<>>
    /\ sess[s].conn = "lost"
    /\ sess' = [sess EXCEPT
           ![s].char = "",
           ![s].pc = AfterRead(""),
           ![s].npolls = Counted(s, @),
           ![s].waiting = FALSE,
           ![s].eofAt = IF @ = -1 THEN Len(sess[s].written) ELSE @]
    /\ UNCHANGED <<FPS, DURATION, cache, active>>

\* The connection was lost with an error and reader.read(1) raises it out
\* of the shell: an error that is not asyncio.TimeoutError, or the builtin
\* TimeoutError where asyncio.TimeoutError is a class of its own (before
\* CPython 3.11).
ReadFails(s) ==
    /\ sess[s].pc = "read"
    /\ ReadStarts(FPS)
    /\ sess[s].conn = "lost"
    /\ \E e \in ConnErrors :
           sess' = [sess EXCEPT ![s].pc = "done", ![s].exc = e,
                                ![s].waiting = FALSE]
    /\ UNCHANGED <<FPS, DURATION, cache, active>>

\* The connection was lost by a timeout and reader.read(1) raises the
\* builtin TimeoutError, which is asyncio.TimeoutError from CPython 3.11
\* on: the except clause catches it as it catches the timeout of the poll.
\* No byte is consumed, what is buffered stays buffered, and the loop goes
\* on to the next frame.
ReadFailsCaught(s) ==
    /\ sess[s].pc = "read"
    /\ ReadStarts(FPS)
    /\ sess[s].conn = "lost"
    /\ sess' = [sess EXCEPT
           ![s].pc = AfterTimeout,
           ![s].npolls = Counted(s, @),
           ![s].waiting = FALSE]
    /\ UNCHANGED <<FPS, DURATION, cache, active>>

\* What follows writer.close(): the shell returns.
AfterCloseAgain == "closing"
AfterClose == "done"

\* writer.close(), and the shell returns.
Close(s) ==
    /\ sess[s].pc = "closing"
    /\ sess' = [sess EXCEPT
           ![s].pc = AfterClose,
           ![s].closes = @ + 1,
           ![s].conn = IF @ = "open" THEN "closed" ELSE @]
    /\ UNCHANGED <<FPS, DURATION, cache, active>>

(***************************************************************************)
(* The client.  The event loop handles what the client sends only while    *)
(* the shell is suspended: before it starts, in the grace wait, in drain   *)
(* and in the read.                                                        *)
(***************************************************************************)
Suspended(s) == sess[s].pc \in {"connected", "sleep", "drain", "read"}

\* A NAWS report: the telnet layer records rows and cols in the extra info.
ClientReport(s, size) ==
    /\ Suspended(s)
    /\ sess[s].conn = "open"
    /\ sess[s].nreports < MaxReports
    /\ sess' = [sess EXCEPT ![s].extra = size, ![s].nreports = @ + 1]
    /\ UNCHANGED <<FPS, DURATION, cache, active>>

\* A key press.
ClientSend(s, b) ==
    /\ Suspended(s)
    /\ sess[s].conn = "open"
    /\ sess[s].nsent < MaxInput
    /\ sess' = [sess EXCEPT ![s].inbuf = Append(@, b), ![s].nsent = @ + 1]
    /\ UNCHANGED <<FPS, DURATION, cache, active>>

\* The connection is lost: the client disconnects, or the network fails.
ClientDisconnect(s) ==
    /\ Suspended(s)
    /\ sess[s].conn = "open"
    /\ sess' = [sess EXCEPT ![s].conn = "lost"]
    /\ UNCHANGED <<FPS, DURATION, cache, active>>

\* A step of the shell of the connection s that the event loop is bound
\* to take: the code between two awaits, the end of the sleep, and the end
\* of the timed read, which wait_for bounds by 1/FPS.  writer.drain() is not
\* among them: it has no timeout and returns when the client has read
\* enough of what was written.
TimedStep(s) ==
    /\ s \in active
    /\ \/ Negotiate(s)
       \/ GraceElapsed(s)
       \/ Frame(s)
       \/ Exhausted(s)
       \/ ReadByte(s)
       \/ ReadTimeout(s)
       \/ ReadEof(s)
       \/ ReadFails(s)
       \/ ReadFailsCaught(s)
       \/ Close(s)

Next ==
    \/ \E s \in active : Negotiate(s)
    \/ \E s \in active : GraceElapsed(s)
    \/ \E s \in active : Frame(s)
    \/ \E s \in active : Exhausted(s)
    \/ \E s \in active : Drain(s)
    \/ \E s \in active : DrainFails(s)
    \/ \E s \in active : ReadByte(s)
    \/ \E s \in active : ReadTimeout(s)
    \/ \E s \in active : ReadEof(s)
    \/ \E s \in active : ReadFails(s)
    \/ \E s \in active : ReadFailsCaught(s)
    \/ \E s \in active : Close(s)
    \/ \E s \in active : \E size \in LoopSizes : ClientReport(s, size)
    \/ \E s \in active : \E b \in Bytes : ClientSend(s, b)
    \/ \E s \in active : ClientDisconnect(s)

Spec == Init /\ [][Next]_vars

\* The event loop resumes every shell whose await has completed.  A sleep
\* and a timed read complete by themselves; writer.drain() completes when
\* the client reads, which nothing in the server enforces.  The
\* sessions run 0.5 s at 5 fps (2 frames), 0.3 s at 10 fps (3 frames) or,
\* with --duration -0.5 --fps -5, 2 frames with the negative timeout 1/FPS.
FairConfigs == {<<5, 50>>, <<3, 100>>, <<-5, -50>>}

FairInit == InitWith({"c1"}, FairConfigs)

FairSpec ==
    FairInit /\ [][Next]_vars /\ \A s \in Sessions : WF_vars(TimedStep(s))

(***************************************************************************)
(* The renderer on its own: one shell, 1 s at 10 fps so that every offset  *)
(* 0 .. 9 is rendered, with a client that has reported one window size     *)
(* before the shell starts and then stays silent.                          *)
(***************************************************************************)
\* Large geometries next to the dense range 0..MaxRows x 0..MaxCols.
ExtraSizes == {<<24, 80>>, <<6, 420>>}

RenderSizes == ((0..MaxRows) \X (0..MaxCols)) \cup ExtraSizes

RenderInit ==
    /\ DURATION = 10 /\ FPS = 100
    /\ cache = <<>>
    /\ active = {"c1"}
    /\ \E size \in RenderSizes :
           sess = [s \in Sessions |->
                      IF s = "c1"
                      THEN [NewSession EXCEPT !.extra = size, !.nreports = MaxReports]
                      ELSE NewSession]

RenderNext ==
    \/ \E s \in active : Negotiate(s)
    \/ \E s \in active : GraceElapsed(s)
    \/ \E s \in active : Frame(s)
    \/ \E s \in active : Exhausted(s)
    \/ \E s \in active : Drain(s)
    \/ \E s \in active : ReadTimeout(s)
    \/ \E s \in active : Close(s)

RenderSpec == RenderInit /\ [][RenderNext]_vars

(***************************************************************************)
(* A long session: 3 s at 10 fps, 30 frames, so that the offsets repeat    *)
(* (frame 10 has the offset of frame 0) and the subtitle color goes round  *)
(* the palette (frame 28 has the color of frame 0).  The client reports    *)
(* window sizes and sends no key.                                          *)
(***************************************************************************)
LongInit == InitWith({"c1"}, {<<30, 100>>})

LongNext ==
    \/ \E s \in active : Negotiate(s)
    \/ \E s \in active : GraceElapsed(s)
    \/ \E s \in active : Frame(s)
    \/ \E s \in active : Exhausted(s)
    \/ \E s \in active : Drain(s)
    \/ \E s \in active : ReadTimeout(s)
    \/ \E s \in active : Close(s)
    \/ \E s \in active : \E size \in ReportSizes : ClientReport(s, size)

LongSpec == LongInit /\ [][LongNext]_vars

(***************************************************************************)
(* Short sessions, of 1, 2 and 3 frames (0.1 s, 0.5 s at 5 fps, 0.3 s),    *)
(* with every client behaviour: the keys a client sends can outnumber the  *)
(* polls of the session.  --duration -0.5 --fps -5 is a session of 2       *)
(* frames whose polls have the negative timeout 1/FPS.                     *)
(***************************************************************************)
KeyConfigs == {<<1, 100>>, <<5, 50>>, <<3, 100>>, <<-5, -50>>}

KeyInit == InitWith({"c1"}, KeyConfigs)

KeySpec == KeyInit /\ [][Next]_vars

(***************************************************************************)
(* Two concurrent sessions, 0.5 s at 5 fps (2 frames each), sharing the    *)
(* cache of render_screen.  The event loop runs one shell at a time, from  *)
(* one await to the next.  The client of c1 resizes its window (to 0 x 0,  *)
(* which fails its session, or to 7 x 30), presses 'q' and disconnects;    *)
(* the client of c2 stays silent, as in a session of its own.              *)
(***************************************************************************)
ConcInit == InitWith(Sessions, {<<5, 50>>})

ConcSizes == {<<0, 0>>, <<7, 30>>}

ConcNext ==
    \/ \E s \in active : Negotiate(s)
    \/ \E s \in active : GraceElapsed(s)
    \/ \E s \in active : Frame(s)
    \/ \E s \in active : Exhausted(s)
    \/ \E s \in active : Drain(s)
    \/ \E s \in active : DrainFails(s)
    \/ \E s \in active : ReadByte(s)
    \/ \E s \in active : ReadTimeout(s)
    \/ \E s \in active : ReadEof(s)
    \/ \E s \in active : ReadFails(s)
    \/ \E s \in active : ReadFailsCaught(s)
    \/ \E s \in active : Close(s)
    \/ \E size \in ConcSizes : ClientReport("c1", size)
    \/ ClientSend("c1", "q")
    \/ ClientDisconnect("c1")

ConcSpec == ConcInit /\ [][ConcNext]_vars

(***************************************************************************)
(* The states of the session loop.                                         *)
(***************************************************************************)
State(s) ==
    CASE sess[s].pc = "connected" -> "CONNECTING"
      [] sess[s].pc = "sleep" -> "NEGOTIATING"
      [] sess[s].pc \in {"loop", "drain", "read"} -> "ANIMATING"
      [] sess[s].pc = "closing" -> "CLOSING"
      [] sess[s].pc = "done" -> "CLOSED"

\* The frame indices 0 .. n-1 in order.
FirstFrames(n) == [i \in 1..n |-> i - 1]

\* The text the shell writes for a frame of the given geometry.
ColoredFrame(rows, cols, frame) ==
    ReplaceFirst(render_body(rows, cols, frame % 10).value, COLOR_TOKEN,
                 SubtitleColor(frame))

(***************************************************************************)
(* The claims.                                                             *)
(***************************************************************************)
\* C1: a session that receives no 'q' writes exactly int(DURATION * FPS)
\* frames, 0, 1, ..., N-1 in order, and then closes the connection: the
\* frames written are always the first frames in order, never more than N
\* (10 for 1 s at 10 fps), nothing is written before the loop starts, and a
\* session that has ended with its client still connected and no 'q' sent
\* has written all N frames and has closed the connection, once.  N is the
\* value the for statement computed when the loop started.
NoQuitReceived(s) ==
    /\ sess[s].quitAt = -1
    /\ \A i \in 1..Len(sess[s].inbuf) : ~IsQuit(sess[s].inbuf[i])

C1_AllFramesThenClose ==
    \A s \in active :
        LET n == sess[s].nframes
            w == sess[s].written
        IN  /\ (sess[s].pc \in {"connected", "sleep"}) => w = <<>>
            /\ (sess[s].pc \notin {"connected", "sleep"}
                    /\ DURATION = 10 /\ FPS = 100) => n = 10
            /\ w # <<>> => Len(w) <= n
            /\ w = FirstFrames(Len(w))
            /\ (sess[s].pc = "done" /\ NoQuitReceived(s)
                    /\ sess[s].conn # "lost") =>
                   /\ w = FirstFrames(n)
                   /\ sess[s].closes = 1
                   /\ sess[s].conn = "closed"

\* C2: when the read after frame k returns 'q' the session goes to closing
\* at once: frame k stays the last frame written, and the session ends by
\* closing the connection.
C2_QuitClosesAtOnce ==
    \A s \in active :
        sess[s].quitAt # -1 =>
            /\ State(s) \in {"CLOSING", "CLOSED"}
            /\ sess[s].written = FirstFrames(sess[s].quitAt + 1)
            /\ sess[s].exc = ""
            /\ State(s) = "CLOSED" => sess[s].closes = 1 /\ sess[s].conn # "open"

C2_Witness ==
    \E s \in active :
        /\ DURATION = 10 /\ FPS = 100
        /\ sess[s].quitAt = 3
        /\ sess[s].pc = "done"
        /\ sess[s].written = <<0, 1, 2, 3>>

\* C3: once a read has returned end-of-stream (the peer has closed the
\* connection) the session attempts no further frame write: the number of
\* frames written stays what it was at that read.
C3_NoWriteAfterPeerClose ==
    \A s \in active :
        sess[s].eofAt # -1 => Len(sess[s].written) = sess[s].eofAt

\* C4: the geometry is queried once: every frame written is rendered with
\* the rows and cols read when the negotiation completed, also when the
\* client reports a new window size while the animation runs.
C4_GeometryQueriedOnce ==
    \A s \in active :
        sess[s].written # <<>> =>
            <<sess[s].rows, sess[s].cols>> = sess[s].graceSize

\* C5: once the session is CLOSING nothing more is written or negotiated;
\* its only step is writer.close(), which happens once in a session and
\* after which the session does nothing.
C5_NoWriteAfterClosing ==
    [][\A s \in active :
          /\ State(s) = "CLOSING" =>
                 /\ sess'[s].written = sess[s].written
                 /\ sess'[s].iac = sess[s].iac
                 /\ \/ State(s)' = "CLOSING" /\ sess'[s].closes = sess[s].closes
                    \/ State(s)' = "CLOSED" /\ sess'[s].closes = 1
          /\ State(s) = "CLOSED" =>
                 /\ State(s)' = "CLOSED"
                 /\ sess'[s].written = sess[s].written
                 /\ sess'[s].iac = sess[s].iac
                 /\ sess'[s].closes = sess[s].closes
          /\ sess[s].closes = 0 /\ sess'[s].closes > 0 => State(s) = "CLOSING"
      ]_vars

C5_Witness ==
    \E s \in active :
        /\ sess[s].pc = "done" /\ sess[s].closes = 1
        /\ sess[s].quitAt = 0
        /\ sess[s].conn = "closed"

\* C6: under fair scheduling every session is eventually CLOSED (its shell
\* has ended, by writer.close() or by an exception), whatever the client
\* sends, and in particular when it sends nothing: every read ends, by a
\* byte or by the timeout, so the frame index advances until the loop ends.
C6_EventuallyClosed == <>(\A s \in active : State(s) = "CLOSED")

\* C7: no geometry the client reports makes the session fail: the shell
\* never ends with the exception render_screen raises.
C7_GeometryNeverFails ==
    \A s \in active : sess[s].exc # "IndexError"

\* C8: a session whose client reported no size in the grace wait goes on
\* to the animation and renders every frame with rows = 24, cols = 80.
C8_DefaultsAfterSilentGrace ==
    \A s \in active :
        (sess[s].graceReports = 0 /\ sess[s].written # <<>>) =>
            sess[s].rows = 24 /\ sess[s].cols = 80

(***************************************************************************)
(* Claims about the frame render_screen returns.  The frame returned last  *)
(* is the most recently used cache entry: its key holds the arguments.     *)
(***************************************************************************)
\* t.split(sep)
RECURSIVE Split(_, _)
Split(t, sep) ==
    LET i == Find(t, sep)
    IN  IF i = -1 THEN <<t>>
        ELSE <<SubSeq(t, 1, i)>> \o Split(SubSeq(t, i + Len(sep) + 1, Len(t)), sep)

\* The screen lines of a frame: the text between the leading RESET WATER and
\* the trailing END, split at the line breaks.
ScreenLines(text) ==
    Split(SubSeq(text, Len(RESET) + Len(WATER) + 1, Len(text) - Len(END)), CRLF)

Wrapped(text) ==
    /\ Len(text) >= Len(RESET) + Len(WATER) + Len(END)
    /\ SubSeq(text, 1, Len(RESET) + Len(WATER)) = RESET \o WATER
    /\ SubSeq(text, Len(text) - Len(END) + 1, Len(text)) = END

WaveChars == {"'", "^", "-", ".", "_"}

OnlyWave(chars) == \A k \in 1..Len(chars) : chars[k] \in WaveChars

\* A line that is background only, but for the footer when it is the last
\* line and has more than 9 characters.
BackgroundLine(line, isLast) ==
    IF isLast /\ Len(line) > 9
    THEN /\ SubSeq(line, 1, 3) = <<"j", "g", "s">>
         /\ SubSeq(line, Len(line) - 5, Len(line)) = <<"[", "q", "]", "u", "i", "t">>
         /\ OnlyWave(SubSeq(line, 4, Len(line) - 6))
    ELSE OnlyWave(line)

\* C9: for rows >= 5 and cols >= 17 the frame returned holds the five banner
\* rows intact: screen line (rows-5)//2 + i starts with (cols-17)//2
\* printable characters, then END, then banner row i; and rendering the same
\* arguments again gives the same text.
C9_BannerIntactAndCentered ==
    cache # <<>> =>
        LET e == cache[Len(cache)]
            rows == e.key[1]
            cols == e.key[2]
            lines == ScreenLines(e.value)
            start == (cols - 17) \div 2
        IN  (rows >= 5 /\ cols >= 17) =>
                /\ Wrapped(e.value)
                /\ Len(lines) = rows
                /\ \A i \in 0..4 :
                       LET line == lines[((rows - 5) \div 2) + i + 1]
                           row == BANNER[i + 1]
                       IN  /\ Len(line) >= start + Len(END) + Len(row)
                           /\ \A k \in 1..start : line[k] # "ESC"
                           /\ SubSeq(line, start + 1, start + Len(END)) = END
                           /\ SubSeq(line, start + Len(END) + 1,
                                     start + Len(END) + Len(row)) = row
                /\ render_body(rows, cols, e.key[3]).value = e.value

\* C10: for rows < 5 or cols < 17 the frame returned holds no banner
\* fragment: no '^color', no escape sequence but the wrapping RESET WATER
\* and END, and every line is wave background, plus the footer on the last
\* line when it has more than 9 characters.
C10_NoBannerFragment ==
    cache # <<>> =>
        LET e == cache[Len(cache)]
            rows == e.key[1]
            cols == e.key[2]
            lines == ScreenLines(e.value)
        IN  (rows < 5 \/ cols < 17) =>
                /\ Wrapped(e.value)
                /\ Find(e.value, COLOR_TOKEN) = -1
                /\ Len(lines) = rows
                /\ \A r \in 1..rows : BackgroundLine(lines[r], r = rows)

C10_Witness ==
    /\ cache # <<>>
    /\ cache[Len(cache)].key = <<5, 5, 9>>
    /\ \E s \in active : sess[s].pc = "done" /\ Len(sess[s].written) = 10

\* The frame holds the banner's subtitle row (with its color placeholder).
HasSubtitle(text) == Find(text, COLOR_TOKEN) # -1

\* The frame holds an escape sequence between its wrapping RESET WATER and
\* END: only the overlay puts one there.
HasOverlayEscape(text) ==
    \E k \in (Len(RESET) + Len(WATER) + 1)..(Len(text) - Len(END)) :
        text[k] = "ESC"

\* C11 as stated: in a terminal with rows < 5 + 2 or cols < 17 + 2 the frame
\* returned holds nothing of the banner.
C11_OmittedWithinMargin ==
    cache # <<>> =>
        LET e == cache[Len(cache)]
        IN  (e.key[1] < 5 + 2 \/ e.key[2] < 17 + 2) =>
                /\ ~HasSubtitle(e.value)
                /\ ~HasOverlayEscape(e.value)

\* C11 amended: there is no margin.  The frame returned holds nothing of the
\* banner exactly when rows < 5 or cols < 17; with rows >= 5 and cols >= 17
\* the banner is overlaid, also in a terminal of 5 or 6 rows or of 17 or 18
\* columns.
C11_OmittedBelowBannerBounds ==
    cache # <<>> =>
        LET e == cache[Len(cache)]
            small == e.key[1] < 5 \/ e.key[2] < 17
        IN  /\ small <=> ~HasSubtitle(e.value)
            /\ small <=> ~HasOverlayEscape(e.value)

C11_Witness ==
    /\ cache # <<>>
    /\ cache[Len(cache)].key = <<6, 18, 0>>
    /\ HasSubtitle(cache[Len(cache)].value)

\* C14: when the last line, as it is before the footer is added, has more
\* than 9 characters, the footer replaces its first 3 characters by 'jgs'
\* and its last 6 by '[q]uit' and leaves the characters between them as
\* they were, and the 9 characters replaced are wave background characters;
\* a last line of at most 9 characters is left as it is.
C14_FooterReplacesBackground ==
    cache # <<>> =>
        LET e == cache[Len(cache)]
            rows == e.key[1]
            pre == Overlaid(rows, e.key[2], e.key[3])[rows]
            post == ScreenLines(e.value)[rows]
            n == Len(pre)
        IN  /\ n > 9 =>
                   /\ Len(post) = n
                   /\ SubSeq(post, 1, 3) = <<"j", "g", "s">>
                   /\ SubSeq(post, n - 5, n) = <<"[", "q", "]", "u", "i", "t">>
                   /\ SubSeq(post, 4, n - 6) = SubSeq(pre, 4, n - 6)
                   /\ OnlyWave(SubSeq(pre, 1, 3))
                   /\ OnlyWave(SubSeq(pre, n - 5, n))
            /\ n <= 9 => post = pre

(***************************************************************************)
(* Claims about the frame cache and the lookups of a session.              *)
(***************************************************************************)
\* The lookup a step adds to the history of the session s.
NewLookup(s) == sess'[s].lookups[Len(sess'[s].lookups)]

\* A lookup with this key has returned before, in any session.
LookedUp(key) ==
    \E t \in active : \E j \in 1..Len(sess[t].lookups) :
        sess[t].lookups[j].key = key

\* C12: a lookup with a key that was looked up before (nothing having been
\* evicted since) is a cache hit: the renderer body does not run again,
\* nothing is stored, and the text returned is the text the first lookup
\* stored; the first lookup of a key is the only one that runs the body.
C12_SecondLookupHits ==
    [][\A s \in active :
          Len(sess'[s].lookups) > Len(sess[s].lookups) =>
              LET l == NewLookup(s)
              IN  /\ (LookedUp(l.key) /\ Len(cache) < 200) =>
                         /\ l.hit
                         /\ Len(cache') = Len(cache)
                         /\ \E k \in 1..Len(cache) :
                                /\ cache[k].key = l.key
                                /\ cache'[Len(cache')] = cache[k]
                                /\ sess'[s].text =
                                       ReplaceFirst(cache[k].value, COLOR_TOKEN,
                                                    SubtitleColor(sess'[s].frame))
                  /\ ~LookedUp(l.key) =>
                         /\ ~l.hit
                         /\ Len(cache') = Len(cache) + 1
                         /\ cache'[Len(cache')].key = l.key
      ]_vars

C12_Witness ==
    \E s \in active :
        /\ Len(sess[s].lookups) >= 11
        /\ sess[s].lookups[1] = [key |-> <<24, 80, 0>>, hit |-> FALSE]
        /\ sess[s].lookups[11] = [key |-> <<24, 80, 0>>, hit |-> TRUE]

\* C13: the color of frame f is palette[(f // 7) % 4] with palette =
\* [MAGENTA, GREEN, RED, YELLOW]: it is the same within each run of 7 frames
\* 7k .. 7k+6, frames f and f+28 have the same color, and the text written
\* for frame f is the frame returned with its '^color' replaced by that
\* color.
C13_PaletteCycle ==
    \A s \in active :
        LET c == sess[s].colors
        IN  /\ Len(c) = Len(sess[s].written)
            /\ \A k \in 1..Len(c) :
                   LET f == k - 1
                   IN  /\ c[k] = <<MAGENTA, GREEN, RED, YELLOW>>[((f \div 7) % 4) + 1]
                       /\ (f % 7 # 0) => c[k] = c[k - 1]
                       /\ (f >= 28) => c[k] = c[k - 28]
            /\ sess[s].pc = "drain" =>
                   LET raw == cache[Len(cache)].value
                       i == Find(raw, COLOR_TOKEN)
                   IN  /\ cache[Len(cache)].key =
                              <<sess[s].rows, sess[s].cols, sess[s].frame % 10>>
                       /\ i # -1 =>
                              sess[s].text =
                                  SubSeq(raw, 1, i) \o c[Len(c)]
                                      \o SubSeq(raw, i + 7, Len(raw))
                       /\ i = -1 => sess[s].text = raw

C13_Witness ==
    \E s \in active :
        /\ sess[s].pc = "drain"
        /\ sess[s].frame = 28
        /\ Len(sess[s].colors) = 29
        /\ sess[s].colors[29] = MAGENTA /\ sess[s].colors[28] = YELLOW
        /\ Find(sess[s].text, MAGENTA \o <<" ", " ", "R", "i", "d", "e">>) # -1

\* C18: the k-th lookup of a session has the key (rows, cols, frame mod 10)
\* of its frame, the offset being in 0..9; the cache holds one entry per
\* key, and the entry looked up last, when it has a banner, keeps its
\* '^color' and holds no palette color (the substitution does not touch
\* it); a frame with the key of an earlier frame and another color is a hit
\* on that same entry; and the text written holds no '^color'.
C18_CacheIgnoresColor ==
    /\ \A i \in 1..Len(cache) :
           /\ \A j \in 1..Len(cache) : cache[i].key = cache[j].key => i = j
           /\ cache[i].key[3] \in 0..9
    /\ cache # <<>> =>
           LET e == cache[Len(cache)]
           IN  (e.key[1] >= 5 /\ e.key[2] >= 17) =>
                   /\ HasSubtitle(e.value)
                   /\ \A color \in {MAGENTA, GREEN, RED, YELLOW} :
                          Find(e.value, color) = -1
    /\ \A s \in active :
           LET l == sess[s].lookups
           IN  /\ Len(l) = Len(sess[s].colors)
               /\ \A k \in 1..Len(l) :
                      /\ l[k].key[3] = (k - 1) % 10
                      /\ \A j \in 1..(k - 1) :
                             (l[j].key = l[k].key
                                 /\ sess[s].colors[j] # sess[s].colors[k]) =>
                                 l[k].hit
               /\ sess[s].pc = "drain" =>
                      /\ l[Len(l)].key =
                             <<sess[s].rows, sess[s].cols, sess[s].frame % 10>>
                      /\ cache[Len(cache)].key = l[Len(l)].key
                      /\ ~HasSubtitle(sess[s].text)
                      /\ (sess[s].rows >= 5 /\ sess[s].cols >= 17) =>
                             Find(sess[s].text, sess[s].colors[Len(l)]) # -1

C18_Witness ==
    \E s \in active :
        /\ sess[s].pc = "drain"
        /\ sess[s].frame = 10
        /\ sess[s].lookups[1].key = <<24, 80, 0>>
        /\ sess[s].lookups[11] = [key |-> <<24, 80, 0>>, hit |-> TRUE]
        /\ sess[s].colors[1] = MAGENTA /\ sess[s].colors[11] = GREEN
        /\ HasSubtitle(cache[Len(cache)].value)
        /\ Find(sess[s].text, GREEN) # -1 /\ ~HasSubtitle(sess[s].text)

(***************************************************************************)
(* Claims about the order of the steps of a session.                       *)
(***************************************************************************)
\* The input bytes the shell of s has consumed.
Consumed(s) == sess[s].nsent - Len(sess[s].inbuf)

\* C15: each frame is written, then drained, then polled once: when frame
\* k is written, k drains and k polls have completed (one of each since the
\* write before); the drain of a frame comes after its write and before its
\* poll; and a poll consumes at most one input byte, nothing else any.
C15_WriteDrainPoll ==
    [][\A s \in active :
          LET w == Len(sess[s].written)
          IN  /\ sess'[s].written # sess[s].written =>
                     /\ Len(sess'[s].written) = w + 1
                     /\ sess[s].ndrains = w /\ sess[s].npolls = w
                     /\ sess'[s].ndrains = w /\ sess'[s].npolls = w
              /\ sess'[s].ndrains # sess[s].ndrains =>
                     /\ sess'[s].ndrains = w
                     /\ sess[s].ndrains = w - 1 /\ sess[s].npolls = w - 1
                     /\ sess'[s].npolls = sess[s].npolls
              /\ sess'[s].npolls # sess[s].npolls =>
                     /\ sess'[s].npolls = w
                     /\ sess[s].npolls = w - 1 /\ sess[s].ndrains = w
                     /\ Consumed(s)' - Consumed(s) \in {0, 1}
              /\ sess'[s].npolls = sess[s].npolls => Consumed(s)' = Consumed(s)
      ]_vars

C15_Witness ==
    \E s \in active :
        /\ sess[s].pc = "drain"
        /\ sess[s].written = <<0, 1, 2>>
        /\ sess[s].ndrains = 2 /\ sess[s].npolls = 2
        /\ sess[s].nsent = 2 /\ Len(sess[s].inbuf) = 1 /\ sess[s].char = "x"

\* The place of a state in CONNECTING, NEGOTIATING, ANIMATING, CLOSING,
\* CLOSED.
Rank(st) ==
    CASE st = "CONNECTING" -> 0
      [] st = "NEGOTIATING" -> 1
      [] st = "ANIMATING" -> 2
      [] st = "CLOSING" -> 3
      [] st = "CLOSED" -> 4

\* C16: a session never steps back to an earlier state; NEGOTIATING is
\* entered from CONNECTING only and left for ANIMATING only, so there is one
\* grace wait; the five option requests are sent once, on entering
\* NEGOTIATING, and never again; and a frame is written only in ANIMATING,
\* after the grace wait has elapsed.
C16_ForwardOnly ==
    [][\A s \in active :
          /\ Rank(State(s)') >= Rank(State(s))
          /\ (State(s)' = "NEGOTIATING" /\ State(s) # "NEGOTIATING") =>
                 /\ State(s) = "CONNECTING"
                 /\ sess[s].iac = <<>>
                 /\ sess'[s].iac = << <<"DO", "NAWS">>, <<"DO", "SGA">>,
                                      <<"WILL", "SGA">>, <<"WILL", "ECHO">>,
                                      <<"WONT", "LINEMODE">> >>
          /\ (State(s) = "NEGOTIATING" /\ State(s)' # "NEGOTIATING") =>
                 /\ State(s)' = "ANIMATING"
                 /\ sess[s].graceReports = -1 /\ sess'[s].graceReports # -1
          /\ State(s) # "CONNECTING" => sess'[s].iac = sess[s].iac
          /\ State(s) # "NEGOTIATING" =>
                 sess'[s].graceReports = sess[s].graceReports
          /\ sess'[s].written # sess[s].written =>
                 /\ State(s) = "ANIMATING"
                 /\ sess[s].graceReports # -1
                 /\ Len(sess[s].iac) = 5
      ]_vars

C16_Witness ==
    \E s \in active :
        /\ State(s) = "CLOSED"
        /\ sess[s].closes = 1
        /\ Len(sess[s].iac) = 5
        /\ sess[s].graceReports = 1
        /\ sess[s].written = <<0, 1>>

\* C19: a poll that reads a byte other than 'q' does what a timeout does:
\* the session stays in ANIMATING, at the loop, with nothing written or
\* closed.  A 'q' with k unread bytes, none a 'q', before it when the
\* animation starts is read by the poll after frame k, after which frames
\* 0..k are all that is written.  The claim is read for the k that have a
\* poll after frame k, those below the frame count N.
C19_QuitAfterKFrames ==
    [][\A s \in active :
          LET n == sess'[s].nframes
              k == sess'[s].graceQuit
              ended == sess'[s].pc \in {"closing", "done"} /\ sess'[s].exc = ""
          IN  /\ (Consumed(s)' = Consumed(s) + 1 /\ Head(sess[s].inbuf) # "q") =>
                     /\ State(s)' = "ANIMATING" /\ sess'[s].pc = "loop"
                     /\ sess'[s].written = sess[s].written
                     /\ sess'[s].frame = sess[s].frame
                     /\ sess'[s].closes = 0 /\ sess'[s].quitAt = -1
              /\ (Consumed(s)' = Consumed(s) + 1 /\ Head(sess[s].inbuf) = "q") =>
                     /\ State(s)' = "CLOSING"
                     /\ sess'[s].quitAt = sess[s].frame
              /\ (k >= 0 /\ k < n /\ ended) =>
                     /\ sess'[s].quitAt = k
                     /\ sess'[s].written = FirstFrames(k + 1)
      ]_vars

\* C20: input is not looked at before the first frame: the negotiation,
\* the grace wait, the writing of a frame and its drain leave the unread
\* input as it is, and a byte is consumed only by a poll, after a frame
\* (frame 0 at least) is written and drained.  A 'q' that is first in the
\* unread input when the grace wait ends is read by the first poll: frame 0
\* is all that is written.  Every session that reads a 'q' has written a
\* frame.
C20_FirstFrameBeforeInput ==
    [][\A s \in active :
          /\ sess[s].pc # "read" => Consumed(s)' = Consumed(s)
          /\ Consumed(s)' > Consumed(s) =>
                 /\ sess[s].pc = "read"
                 /\ Len(sess[s].written) >= 1
                 /\ sess[s].ndrains = Len(sess[s].written)
          /\ sess'[s].quitAt # -1 =>
                 /\ Len(sess'[s].written) >= 1
                 /\ sess'[s].ndrains >= 1
          /\ (sess'[s].graceQuit = 0
                  /\ sess'[s].pc \in {"closing", "done"} /\ sess'[s].exc = "") =>
                 /\ sess'[s].written = <<0>>
                 /\ sess'[s].ndrains = 1 /\ sess'[s].npolls = 1
                 /\ sess'[s].quitAt = 0
      ]_vars

(***************************************************************************)
(* Claims about concurrent sessions.                                       *)
(***************************************************************************)
\* C17: with two sessions sharing the cache, (1) a step changes at most one
\* session: what a client or a shell does leaves the other session as it
\* is; (2) the text a session writes for a frame is the frame of its own
\* geometry and frame index, whether the lookup hit an entry the other
\* session stored or not; (3) a session closes where its own input puts it:
\* after the frame at which it read 'q', else after all N frames, and a
\* session whose client is silent and connected never fails and writes
\* every frame in 24 x 80; (4) the cache holds one entry per key and a step
\* never changes the text stored under a key.
C17_SessionsIsolated ==
    [][/\ \A s \in active : \A t \in active \ {s} :
              sess'[s] # sess[s] => sess'[t] = sess[t]
       /\ \A s \in active :
              sess'[s].frame # sess[s].frame =>
                  LET size == IF sess[s].extra = <<>> THEN <<24, 80>>
                              ELSE sess[s].extra
                  IN  /\ <<sess'[s].rows, sess'[s].cols>> = size
                      /\ sess'[s].pc = "drain" =>
                             sess'[s].text =
                                 ColoredFrame(size[1], size[2], sess'[s].frame)
       /\ \A s \in active :
              LET n == sess'[s].nframes
                  w == sess'[s].written
              IN  /\ w = FirstFrames(Len(w)) /\ (w # <<>> => Len(w) <= n)
                  /\ sess'[s].quitAt # -1 => w = FirstFrames(sess'[s].quitAt + 1)
                  /\ (sess'[s].quitAt = -1 /\ sess'[s].pc = "closing") => Len(w) = n
                  /\ (sess'[s].nsent = 0 /\ sess'[s].nreports = 0
                          /\ sess'[s].conn # "lost") =>
                         /\ sess'[s].exc = ""
                         /\ sess'[s].pc = "done" =>
                                Len(w) = n /\ sess'[s].closes = 1
                         /\ \A k \in 1..Len(sess'[s].lookups) :
                                sess'[s].lookups[k].key = <<24, 80, (k - 1) % 10>>
       /\ \A i \in 1..Len(cache') : \A j \in 1..Len(cache') :
              cache'[i].key = cache'[j].key => i = j
       /\ \A i \in 1..Len(cache) : \A j \in 1..Len(cache') :
              cache[i].key = cache'[j].key => cache[i].value = cache'[j].value
      ]_vars

C17_Witness ==
    /\ active = {"c1", "c2"}
    /\ sess["c1"].exc = "IndexError"
    /\ sess["c1"].lookups = <<[key |-> <<24, 80, 0>>, hit |-> FALSE]>>
    /\ sess["c2"].pc = "done" /\ sess["c2"].closes = 1
    /\ sess["c2"].written = <<0, 1>>
    /\ sess["c2"].lookups[1].hit
====
